---- MODULE Spec2Model ----
(***************************************************************************)
(* Model of src/rust/src/lib.rs: the suffix-array substring index          *)
(* (RustSubstringIndex) and the boundary-corruption checker                *)
(* (batch_check_patterns, would_corrupt_rtl, would_corrupt_ltr).           *)
(*                                                                         *)
(* A Rust String is modelled as the sequence of its characters (Unicode    *)
(* code points); Utf8 gives the bytes the String stores, so that           *)
(* String::len(), byte slicing and str::find work on byte offsets while    *)
(* chars().nth() works on character offsets, as in the source.  Offsets    *)
(* and entry indices are 0-based as in the source; TLA+ sequences are      *)
(* 1-based, hence the "+ 1" where a sequence is indexed.                   *)
(***************************************************************************)
EXTENDS Integers, Sequences, FiniteSets, TLC

VARIABLES
    typos,                 \* RustSubstringIndex.typos
    concatenated,          \* RustSubstringIndex.concatenated
    cumulative_starts,     \* RustSubstringIndex.cumulative_starts
    typo_to_idx,           \* RustSubstringIndex.typo_to_idx
    suffix_array,          \* RustSubstringIndex.suffix_array (the sorted table)
    constructed,           \* an index instance exists
    op,                    \* the entry point called last
    arg,                   \* its argument(s)
    matched_typo_indices,  \* find_substring_conflicts: the list before self-filtering
    ret                    \* what the call returned: [status, value]

vars == <<typos, concatenated, cumulative_starts, typo_to_idx, suffix_array,
          constructed, op, arg, matched_typo_indices, ret>>

indexVars == <<typos, concatenated, cumulative_starts, typo_to_idx, suffix_array,
               constructed>>

-----------------------------------------------------------------------------
(* Bounds of the model *)

MaxTypos == 2          \* entries of a corpus
MaxCorpusChars == 3    \* characters of a corpus, all entries together
MaxQueryLen == 2       \* characters of a query of find_substring_conflicts
MaxPatterns == 2       \* patterns of a batch
MaxPatternChars == 2   \* characters of the patterns of a batch, together
MaxWords == 2          \* source words of a batch
MaxWordChars == 3      \* characters of the source words of a batch, together

\* The character of the delimiter "\x00".
Sentinel == 0

\* 'a', 'b' and the sentinel: the characters of corpus entries and queries.
IndexAlphabet == {97, 98, Sentinel}

\* 'a', '1' and U+00E9 (two bytes in UTF-8): the characters of patterns and words.
CheckerAlphabet == {97, 49, 233}

Directions == {"RTL", "RIGHT_TO_LEFT", "LTR", "DIAGONAL"}

Strings(alphabet, n) == UNION {[1..k -> alphabet] : k \in 0..n}

\* The lists of at most maxItems strings with at most maxChars characters together.
RECURSIVE Lists(_, _, _)
Lists(alphabet, maxItems, maxChars) ==
    IF maxItems = 0 THEN {<<>>}
    ELSE {<<>>} \cup
         UNION {{<<s>> \o l : l \in Lists(alphabet, maxItems - 1, maxChars - Len(s))} :
                s \in Strings(alphabet, maxChars)}

Corpora == Lists(IndexAlphabet, MaxTypos, MaxCorpusChars)

Queries == Strings(IndexAlphabet, MaxQueryLen)

BatchInputs ==
    [patterns : Lists(CheckerAlphabet, MaxPatterns, MaxPatternChars),
     source_words : Lists(CheckerAlphabet, MaxWords, MaxWordChars),
     match_direction : Directions]

-----------------------------------------------------------------------------
(* Strings *)

None == -1

Range(s) == {s[i] : i \in DOMAIN s}

\* The UTF-8 encoding of one character.
Utf8Char(c) ==
    IF c < 128 THEN <<c>>
    ELSE IF c < 2048 THEN <<192 + (c \div 64), 128 + (c % 64)>>
    ELSE <<224 + (c \div 4096), 128 + ((c \div 64) % 64), 128 + (c % 64)>>

\* The bytes of a String.
RECURSIVE Utf8(_)
Utf8(s) == IF s = <<>> THEN <<>> ELSE Utf8Char(Head(s)) \o Utf8(Tail(s))

\* String::len(): the length in bytes.
StrLen(s) == Len(Utf8(s))

\* bytes[from..]
SliceFrom(bytes, from) == SubSeq(bytes, from + 1, Len(bytes))

\* needle occurs in hay at byte offset k
MatchesAt(hay, needle, k) ==
    /\ k + Len(needle) <= Len(hay)
    /\ \A j \in 1..Len(needle) : hay[k + j] = needle[j]

\* str::find: the byte offset of the first occurrence, or None.
StrFind(hay, needle) ==
    LET hits == {k \in 0..Len(hay) : MatchesAt(hay, needle, k)}
    IN  IF hits = {} THEN None ELSE CHOOSE k \in hits : \A h \in hits : k <= h

\* str::is_char_boundary, which slicing source_word[idx..] asserts.
IsCharBoundary(s, idx) ==
    LET bytes == Utf8(s)
    IN  \/ idx = 0
        \/ idx = Len(bytes)
        \/ idx < Len(bytes) /\ ~(bytes[idx + 1] \in 128..191)

\* char::is_alphabetic, for the characters below U+0100.
IsAlphabetic(c) ==
    c \in (65..90) \cup (97..122) \cup {170, 181, 186}
          \cup (192..214) \cup (216..246) \cup (248..255)

\* source_word.chars().nth(n).map_or(false, |c| c.is_alphabetic())
NthIsAlphabetic(s, n) == n < Len(s) /\ IsAlphabetic(s[n + 1])

-----------------------------------------------------------------------------
(* RustSubstringIndex::new *)

Delimiter == <<Sentinel>>

RECURSIVE StartsFrom(_, _, _)
StartsFrom(formatted_typos, i, cumulative_pos) ==
    IF i > Len(formatted_typos) THEN <<>>
    ELSE <<cumulative_pos>> \o
         StartsFrom(formatted_typos, i + 1,
                    cumulative_pos + StrLen(formatted_typos[i]) + StrLen(Delimiter))

CumulativeStarts(formatted_typos) == StartsFrom(formatted_typos, 1, 0)

\* formatted_typos.join(&delimiter)
RECURSIVE Join(_, _)
Join(list, delimiter) ==
    IF list = <<>> THEN <<>>
    ELSE IF Len(list) = 1 THEN list[1]
    ELSE list[1] \o delimiter \o Join(Tail(list), delimiter)

\* byte-wise lexicographic order
LexLess(s, t) ==
    \E k \in 0..Len(s) :
        /\ k <= Len(t)
        /\ \A j \in 1..k : s[j] = t[j]
        /\ \/ k = Len(s) /\ k < Len(t)
           \/ k < Len(s) /\ k < Len(t) /\ s[k + 1] < t[k + 1]

RECURSIVE SortSuffixes(_, _)
SortSuffixes(bytes, ps) ==
    IF ps = {} THEN <<>>
    ELSE LET m == CHOOSE p \in ps :
                    \A q \in ps \ {p} : LexLess(SliceFrom(bytes, p), SliceFrom(bytes, q))
         IN  <<m>> \o SortSuffixes(bytes, ps \ {m})

\* suffix::SuffixTable::new: the start offsets of all suffixes of the text,
\* in the lexicographic order of the suffixes.
SuffixTable(text) ==
    LET bytes == Utf8(text) IN SortSuffixes(bytes, 0..(Len(bytes) - 1))

InsertIfAbsent(map, key, value) ==
    [k \in DOMAIN map \cup {key} |-> IF k \in DOMAIN map THEN map[k] ELSE value]

\* HashMap::insert, as collect() applies it: a later pair replaces an earlier
\* one with the same key.
Insert(map, key, value) ==
    [k \in DOMAIN map \cup {key} |-> IF k = key THEN value ELSE map[k]]

RECURSIVE CollectFrom(_, _, _)
CollectFrom(formatted_typos, i, map) ==
    IF i > Len(formatted_typos) THEN map
    ELSE CollectFrom(formatted_typos, i + 1, Insert(map, formatted_typos[i], i - 1))

TypoToIdx(formatted_typos) == CollectFrom(formatted_typos, 1, <<>>)

Pending == [status |-> "pending", value |-> <<>>]

\* The model follows one index instance: its constructor runs once, and the
\* instance is immutable afterwards.  The constructor has no failure path.
New(formatted_typos) ==
    /\ ~constructed
    /\ typos' = formatted_typos
    /\ cumulative_starts' = CumulativeStarts(formatted_typos)
    /\ concatenated' = Join(formatted_typos, Delimiter)
    /\ suffix_array' = SuffixTable(Join(formatted_typos, Delimiter))
    /\ typo_to_idx' = TypoToIdx(formatted_typos)
    /\ constructed' = TRUE
    /\ op' = "new"
    /\ arg' = formatted_typos
    /\ matched_typo_indices' = <<>>
    /\ ret' = [status |-> "Ok", value |-> <<>>]

-----------------------------------------------------------------------------
(* RustSubstringIndex::find_substring_conflicts *)

\* SuffixTable::positions: the start offsets of the occurrences of the query
\* in the text, in table order; none for an empty query or an empty text.
Positions(table, text, query) ==
    LET bytes == Utf8(text)
        needle == Utf8(query)
    IN  IF Len(bytes) = 0 \/ Len(needle) = 0 THEN <<>>
        ELSE SelectSeq(table, LAMBDA p : MatchesAt(bytes, needle, p))

\* slice::binary_search on a strictly increasing slice: Ok(i) where the value
\* is, else Err(i) with i the number of smaller elements.
BinarySearch(starts, pos) ==
    IF \E i \in 1..Len(starts) : starts[i] = pos
    THEN [ok |-> TRUE, i |-> (CHOOSE i \in 1..Len(starts) : starts[i] = pos) - 1]
    ELSE [ok |-> FALSE, i |-> Cardinality({j \in 1..Len(starts) : starts[j] < pos})]

InRangeInclusive(typo_start, typo_end, pos) == typo_start <= pos /\ pos <= typo_end

InRange(typo_start, typo_end, pos) == typo_start <= pos /\ pos < typo_end

\* One iteration of the loop over the match positions.
PushMatch(acc, pos) ==
    LET found == BinarySearch(cumulative_starts, pos)
        skip == ~found.ok /\ found.i = 0
        idx == IF found.ok THEN found.i ELSE found.i - 1
    IN  IF skip THEN acc
        ELSE IF idx < Len(typos)
                /\ InRange(cumulative_starts[idx + 1],
                           cumulative_starts[idx + 1] + StrLen(typos[idx + 1]), pos)
             THEN Append(acc, idx)
             ELSE acc

RECURSIVE MapMatches(_, _, _)
MapMatches(matches, k, acc) ==
    IF k > Len(matches) THEN acc
    ELSE MapMatches(matches, k + 1, PushMatch(acc, matches[k]))

\* self.typo_to_idx.get(typo)
SelfIdx(typo) == IF typo \in DOMAIN typo_to_idx THEN typo_to_idx[typo] ELSE None

FilterSelf(indices, self_idx) == SelectSeq(indices, LAMBDA idx : idx # self_idx)

FindSubstringConflicts(typo) ==
    /\ constructed
    /\ LET matched == MapMatches(Positions(suffix_array, concatenated, typo), 1, <<>>)
       IN  /\ matched_typo_indices' = matched
           /\ ret' = [status |-> "Ok", value |-> FilterSelf(matched, SelfIdx(typo))]
    /\ op' = "find_substring_conflicts"
    /\ arg' = typo
    /\ UNCHANGED indexVars

GetTypos ==
    /\ constructed
    /\ op' = "get_typos"
    /\ arg' = <<>>
    /\ matched_typo_indices' = <<>>
    /\ ret' = [status |-> "Ok", value |-> typos]
    /\ UNCHANGED indexVars

NoIndex ==
    /\ typos = <<>>
    /\ concatenated = <<>>
    /\ cumulative_starts = <<>>
    /\ typo_to_idx = <<>>
    /\ suffix_array = <<>>
    /\ constructed = FALSE
    /\ matched_typo_indices = <<>>

InitIndex ==
    /\ NoIndex
    /\ op = "none"
    /\ arg = <<>>
    /\ ret = Pending

NextIndex ==
    \/ \E formatted_typos \in Corpora : New(formatted_typos)
    \/ \E typo \in Queries : FindSubstringConflicts(typo)
    \/ GetTypos

SpecIndex == InitIndex /\ [][NextIndex]_vars

-----------------------------------------------------------------------------
(* would_corrupt_rtl, would_corrupt_ltr, batch_check_patterns *)

\* The while loop of would_corrupt_rtl from the offset idx on.  The result is
\* "true" or "false", or "panic" where source_word[idx..] slices the word at
\* an offset that is no character boundary.
RECURSIVE RtlFrom(_, _, _)
RtlFrom(pattern, source_word, idx) ==
    IF ~IsCharBoundary(source_word, idx) THEN "panic"
    ELSE LET pos == StrFind(SliceFrom(Utf8(source_word), idx), Utf8(pattern))
             absolute_pos == idx + pos
         IN  IF pos = None THEN "false"
             ELSE IF absolute_pos = 0 \/ ~NthIsAlphabetic(source_word, absolute_pos - 1)
             THEN "true"
             ELSE IF absolute_pos + 1 >= StrLen(source_word) THEN "false"
             ELSE RtlFrom(pattern, source_word, absolute_pos + 1)

would_corrupt_rtl(pattern, source_word) == RtlFrom(pattern, source_word, 0)

\* The while loop of would_corrupt_ltr from the offset idx on.
RECURSIVE LtrFrom(_, _, _)
LtrFrom(pattern, source_word, idx) ==
    IF ~IsCharBoundary(source_word, idx) THEN "panic"
    ELSE LET pos == StrFind(SliceFrom(Utf8(source_word), idx), Utf8(pattern))
             absolute_pos == idx + pos
             char_after_idx == absolute_pos + StrLen(pattern)
         IN  IF pos = None THEN "false"
             ELSE IF \/ char_after_idx >= StrLen(source_word)
                     \/ ~NthIsAlphabetic(source_word, char_after_idx)
             THEN "true"
             ELSE IF absolute_pos + 1 >= StrLen(source_word) THEN "false"
             ELSE LtrFrom(pattern, source_word, absolute_pos + 1)

would_corrupt_ltr(pattern, source_word) == LtrFrom(pattern, source_word, 0)

IsRtl(match_direction) == match_direction = "RTL" \/ match_direction = "RIGHT_TO_LEFT"

\* source_words.iter().any(..) from the i-th word on: it stops at the first
\* word that gives true, and a panic of the closure ends the call.
RECURSIVE AnyWord(_, _, _, _)
AnyWord(pattern, source_words, i, is_rtl) ==
    IF i > Len(source_words) THEN "false"
    ELSE LET r == IF is_rtl THEN would_corrupt_rtl(pattern, source_words[i])
                  ELSE would_corrupt_ltr(pattern, source_words[i])
         IN  IF r = "false" THEN AnyWord(pattern, source_words, i + 1, is_rtl) ELSE r

\* patterns.iter().map(..).collect() from the i-th pattern on.
RECURSIVE MapPatterns(_, _, _, _, _)
MapPatterns(patterns, source_words, is_rtl, i, results) ==
    IF i > Len(patterns) THEN [status |-> "Ok", value |-> results]
    ELSE LET r == AnyWord(patterns[i], source_words, 1, is_rtl)
         IN  IF r = "panic" THEN [status |-> "panic", value |-> <<>>]
             ELSE MapPatterns(patterns, source_words, is_rtl, i + 1,
                              Append(results, r = "true"))

batch_check_patterns(patterns, source_words, match_direction) ==
    MapPatterns(patterns, source_words, IsRtl(match_direction), 1, <<>>)

BatchCheckPatterns ==
    /\ op = "batch_check_patterns"
    /\ ret = Pending
    /\ ret' = batch_check_patterns(arg.patterns, arg.source_words, arg.match_direction)
    /\ UNCHANGED <<indexVars, op, arg, matched_typo_indices>>

\* A caller has chosen the arguments of one call of batch_check_patterns.
InitChecker ==
    /\ NoIndex
    /\ op = "batch_check_patterns"
    /\ arg \in BatchInputs
    /\ ret = Pending

NextChecker == BatchCheckPatterns

SpecChecker == InitChecker /\ [][NextChecker]_vars

-----------------------------------------------------------------------------
(* Properties *)

\* pattern occurs in entry (both as character sequences)
IsSubstring(pattern, entry) ==
    \E k \in 0..Len(entry) :
        k + Len(pattern) <= Len(entry) /\ SubSeq(entry, k + 1, k + Len(pattern)) = pattern

Count(seq, x) == Cardinality({n \in DOMAIN seq : seq[n] = x})

\* the greatest 0-based index of an entry with this text
LastIndexOf(text) ==
    (CHOOSE j \in DOMAIN typos :
        typos[j] = text /\ \A i \in DOMAIN typos : typos[i] = text => i <= j) - 1

\* The number of offsets inside entry i (0-based) at which an occurrence of the
\* pattern begins, reading on through the delimiter and the entries after it.
OccurrencesFrom(i, pattern) ==
    LET rest == Utf8(Join(SubSeq(typos, i + 1, Len(typos)), Delimiter))
    IN  Cardinality({k \in 0..(StrLen(typos[i + 1]) - 1) :
                        pattern # <<>> /\ MatchesAt(rest, Utf8(pattern), k)})

Finished == ret # Pending

\* no entry of the corpus contains the sentinel
SentinelFree == \A i \in DOMAIN typos : Sentinel \notin Range(typos[i])

Found == op = "find_substring_conflicts"

Batched == op = "batch_check_patterns" /\ Finished

RecognizedDirections == {"RTL", "RIGHT_TO_LEFT", "LTR"}

\* The LEADING check as the specification words it, on characters.
LeadingSensitive(pattern, word) ==
    \E k \in 0..Len(word) :
        /\ k + Len(pattern) <= Len(word)
        /\ SubSeq(word, k + 1, k + Len(pattern)) = pattern
        /\ (k = 0 \/ ~IsAlphabetic(word[k]))

\* The TRAILING check as the specification words it, on characters.
TrailingSensitive(pattern, word) ==
    \E k \in 0..Len(word) :
        /\ k + Len(pattern) <= Len(word)
        /\ SubSeq(word, k + 1, k + Len(pattern)) = pattern
        /\ (k + Len(pattern) = Len(word) \/ ~IsAlphabetic(word[k + Len(pattern) + 1]))

\* C1: in a corpus whose entries hold no sentinel, when the query is the text of
\* an entry (possibly the empty string), the index of every entry with another
\* text that contains the query as a substring is in the result.
C1_Completeness ==
    (Found /\ SentinelFree /\ arg \in Range(typos)) =>
        \A i \in DOMAIN typos :
            (typos[i] # arg /\ IsSubstring(arg, typos[i])) => (i - 1) \in Range(ret.value)

\* C2: in a corpus whose entries hold no sentinel, every index in the result
\* of a query, whatever the query string (it may hold the sentinel), is the
\* index of an entry that contains the query as a substring.
C2_Soundness ==
    (Found /\ SentinelFree) => \A n \in DOMAIN ret.value : IsSubstring(arg, typos[ret.value[n] + 1])

\* C3: when the query is the text of some entry, the result does not contain
\* the greatest index of an entry with that text.
C3_SelfExclusion ==
    (Found /\ arg \in Range(typos)) => LastIndexOf(arg) \notin Range(ret.value)

\* C3, the case reached: the query is the text of two entries, both were
\* matched, the later one was removed from the result and the earlier one kept.
C3_Witness ==
    /\ Found
    /\ \E i, j \in DOMAIN typos :
        /\ i < j
        /\ typos[i] = arg
        /\ typos[j] = arg
        /\ (j - 1) = LastIndexOf(arg)
        /\ (j - 1) \in Range(matched_typo_indices)
        /\ (j - 1) \notin Range(ret.value)
        /\ (i - 1) \in Range(ret.value)

\* C4: a call with direction "RTL" or "RIGHT_TO_LEFT" and one source word gives,
\* for each pattern, true exactly if the pattern occurs in the word at an offset
\* that is 0 or is preceded by a character that is not alphabetic.
C4_LeadingCheck ==
    (/\ Batched
     /\ ret.status = "Ok"
     /\ arg.match_direction \in {"RTL", "RIGHT_TO_LEFT"}
     /\ Len(arg.source_words) = 1) =>
        \A i \in DOMAIN arg.patterns :
            ret.value[i] = LeadingSensitive(arg.patterns[i], arg.source_words[1])

\* C5: a call with direction "LTR" and one source word gives, for each pattern
\* (the empty one included), true exactly if the pattern has an occurrence in
\* the word that ends at the end of the word or is followed by a character that
\* is not alphabetic.
C5_TrailingCheck ==
    (/\ Batched
     /\ ret.status = "Ok"
     /\ arg.match_direction = "LTR"
     /\ Len(arg.source_words) = 1) =>
        \A i \in DOMAIN arg.patterns :
            ret.value[i] = TrailingSensitive(arg.patterns[i], arg.source_words[1])

\* C6: a call of batch_check_patterns with a direction that is not recognized
\* fails with an invalid-argument error.
C6_DirectionRejected ==
    (Batched /\ arg.match_direction \notin RecognizedDirections) =>
        ret.status = "InvalidArgumentError"

\* C7: building an index from a corpus with an entry that contains the sentinel
\* fails with an invalid-input error and leaves no index instance.
C7_SentinelRejected ==
    (op = "new" /\ \E i \in DOMAIN arg : Sentinel \in Range(arg[i])) =>
        (ret.status = "InvalidInputError" /\ ~constructed)

\* C8: a call of batch_check_patterns with a recognized direction returns one
\* boolean per pattern, in order, each the disjunction of the single check of
\* that pattern over all source words.
C8_BatchConsistency ==
    (Batched /\ arg.match_direction \in RecognizedDirections) =>
        /\ ret.status = "Ok"
        /\ Len(ret.value) = Len(arg.patterns)
        /\ \A i \in DOMAIN arg.patterns :
            ret.value[i] =
                \E j \in DOMAIN arg.source_words :
                    IF IsRtl(arg.match_direction)
                    THEN would_corrupt_rtl(arg.patterns[i], arg.source_words[j]) = "true"
                    ELSE would_corrupt_ltr(arg.patterns[i], arg.source_words[j]) = "true"

\* C9: every call returns a value; none ends in a panic.
C9_EveryCallReturns == ret.status # "panic"

\* C10: no entry index appears more than once in the result of a query, here
\* for corpora whose entries hold no sentinel.
C10_SetLike ==
    (Found /\ SentinelFree) => \A m, n \in DOMAIN ret.value : m # n => ret.value[m] # ret.value[n]

\* C10 as amended: the result holds the index of an entry once for every offset
\* inside that entry at which an occurrence of the query begins, and does not
\* hold the self index at all.
C10_OncePerOccurrence ==
    Found =>
        \A i \in 0..(Len(typos) - 1) :
            Count(ret.value, i) =
                IF arg \in Range(typos) /\ i = LastIndexOf(arg) THEN 0
                ELSE OccurrencesFrom(i, arg)

\* C10, the case reached: the query occurs twice in one entry and the index of
\* that entry is twice in the result.
C10_Witness ==
    /\ Found
    /\ \E i \in 0..(Len(typos) - 1) :
        OccurrencesFrom(i, arg) = 2 /\ Count(ret.value, i) = 2

====
